---------------------------- MODULE Spec2Model ----------------------------
(***************************************************************************)
(* State-machine model of atakcots.CotServer (src/atakcots/CotServer.py):  *)
(* construction (package directory bootstrap, loopback warning), the file  *)
(* server lifecycle (start / stop and the serving worker thread), the      *)
(* context manager (__enter__ / __exit__) and push_cot with its data       *)
(* package cache.                                                          *)
(***************************************************************************)
EXTENDS Integers, FiniteSets, Sequences, TLC

(* ------------------------------ bounds -------------------------------- *)
\* number of HTTPServer objects start() may construct in one behaviour
MaxStarts == 2
\* number of times create_data_package may be invoked in one behaviour
MaxBuilds == 2

(* ------------------------------ inputs -------------------------------- *)
\* Python's None as a handle field, a cached path or a path local
None == 0

\* the caller has no push in flight: no configuration, message, destination
NoConfig == "none"
NoMessage == [cfg |-> NoConfig, address |-> "none", port |-> -1, path |-> None]
NoDest == <<"none", -1>>

\* nothing is remembered of what the constructor found on disk
NoFind == <<"unknown", FALSE>>

\* no push that built a package has failed in its send
NoFailure == [path |-> None, calls |-> 0]

\* caller threads: "main" drives the lifecycle and pushes, "aux" only pushes
Callers == {"main", "aux"}

\* CotConfig values (hashable, compared by value)
Configs == {"cfgA", "cfgB"}

\* client-facing addresses handed to the constructor
Addresses == {"localhost", "127.0.0.1", "172.0.0.1", "10.0.0.5"}

\* client-facing / bind ports handed to the constructor (0: ephemeral port)
Ports == {0, 8000}

\* default bind address of the constructor
DefaultBindAddress == "0.0.0.0"

\* destination of a push (client_address, client_port)
ClientAddress == "192.168.1.7"
ClientPort == 4242

ServerIds == 1..MaxStarts

VARIABLES
    (* constructor arguments and construction result *)
    address,            \* self._address
    port,               \* self._port
    bind_address,       \* self._bind_address
    constructed,        \* "no" | "ok" | "failed" (ValueError out of __init__)
    warned,             \* warnings.warn was called by __init__
    (* the package directory on disk *)
    dirKind,            \* "absent" | "file" | "dir": what data_package_dir is
    stale,              \* the directory holds content of a previous run
    files,              \* data package paths present in the directory
    removed,            \* data package paths another process has deleted
    (* file server handle and the objects behind it *)
    file_server,        \* self._file_server: a server id or None
    file_server_thread, \* self._file_server_thread: a server id or None
    srv,                \* per HTTPServer object: socket, flags, worker thread
    nextId,             \* number of HTTPServer objects constructed so far
    extBusy,            \* another process listens on (bind_address, port)
    (* push_cot *)
    cot_dp_paths,       \* self._cot_dp_paths: Configs -> path or None
    builderCalls,       \* invocations of create_data_package per config
    buildFailed,        \* some invocation of create_data_package has raised
    nextPath,           \* number of paths create_data_package has returned
    lastStored,         \* per config: the path of the latest line-106 store
    sendFailed,         \* per config: [path, calls] when the send of the push
                        \* that built the package failed
    (* caller threads *)
    pc,                 \* per caller: position in the operation in flight
    cfgArg,             \* per caller: cot_config of the push in flight
    pathLocal,          \* per caller: data_package_path local
    message,            \* per caller: composed message or NoMessage
    sentTo,             \* per caller: destination of the send attempt
    attempts,           \* per caller: send attempts of the current/last push
    built,              \* per caller: the current/last push called the builder
    outcome,            \* per caller: how the last operation returned
    found,              \* what __init__ found at the package directory path
                        \* and whether the directory reappeared before
                        \* makedirs; forgotten when the first call begins
    (* context manager *)
    scope,              \* "none" | "body" | "exiting" | "left"
    bodyRaised,         \* the with-body ended by raising
    scopeStarts,        \* successful start() calls since __enter__ began
    scopeStops,         \* successful stop() calls since __enter__ began
    scopeResult         \* what the caller of the with statement observes

ctorVars  == <<address, port, bind_address, constructed, warned>>
dirVars   == <<dirKind, stale, files, removed>>
fsVars    == <<file_server, file_server_thread, srv, nextId>>
cacheVars == <<cot_dp_paths, builderCalls, buildFailed, nextPath, lastStored,
               sendFailed>>
pushVars  == <<cfgArg, pathLocal, message, sentTo, attempts, built, found>>
scopeVars == <<scope, bodyRaised, scopeStarts, scopeStops, scopeResult>>

vars == <<ctorVars, dirVars, fsVars, extBusy, cacheVars, pushVars, pc,
          outcome, scopeVars>>

(* --------------------------- construction ----------------------------- *)

\* an HTTPServer object that has not been constructed yet
NoServer == [sock |-> "none", shutdown_request |-> FALSE,
             is_shut_down |-> FALSE, thread |-> "none"]

Init ==
    /\ address \in Addresses
    /\ port \in Ports
    /\ bind_address = DefaultBindAddress
    /\ constructed = "no"
    /\ warned = FALSE
    /\ dirKind \in {"absent", "file", "dir"}
    /\ stale \in (IF dirKind = "dir" THEN BOOLEAN ELSE {FALSE})
    /\ files = {}
    /\ removed = {}
    /\ file_server = None
    /\ file_server_thread = None
    /\ srv = [s \in ServerIds |-> NoServer]
    /\ nextId = 0
    /\ extBusy = FALSE
    /\ cot_dp_paths = [c \in Configs |-> None]
    /\ builderCalls = [c \in Configs |-> 0]
    /\ buildFailed = FALSE
    /\ nextPath = 0
    /\ lastStored = [c \in Configs |-> None]
    /\ sendFailed = [c \in Configs |-> NoFailure]
    /\ pc = [t \in Callers |-> "idle"]
    /\ cfgArg = [t \in Callers |-> NoConfig]
    /\ pathLocal = [t \in Callers |-> None]
    /\ message = [t \in Callers |-> NoMessage]
    /\ sentTo = [t \in Callers |-> NoDest]
    /\ attempts = [t \in Callers |-> 0]
    /\ built = [t \in Callers |-> FALSE]
    /\ outcome = [t \in Callers |-> "none"]
    /\ found = NoFind
    /\ scope = "none"
    /\ bodyRaised = FALSE
    /\ scopeStarts = 0
    /\ scopeStops = 0
    /\ scopeResult = "none"

\* line 55: the addresses __init__ warns about
WarnsAbout(a) == a \in {"localhost", "172.0.0.1"}

\* lines 128-132: a regular file at the path makes __init__ raise ValueError
IsFile(kind) == kind = "file"

\* line 134: os.path.exists(data_package_dir)
Exists(kind) == kind # "absent"

\* a bootstrap that does not delete the directory it finds
StaleAfterRmtree_Keep(kind, st) == st

\* lines 134-135: rmtree removes an existing directory with all it holds
StaleAfterRmtree(kind, st) == IF Exists(kind) THEN FALSE ELSE st

\* a makedirs without exist_ok, which raises FileExistsError on a directory
MakedirsRaises_Strict(kind) == kind = "dir"

\* line 137: os.makedirs(..., exist_ok=True) accepts a directory that exists
MakedirsRaises(kind) == FALSE

\* the path between lines 135 and 137: absent, unless another process has
\* created the directory again meanwhile
AfterRmtree(recreated) == IF recreated THEN "dir" ELSE "absent"

\* __init__ raises: ValueError of line 129, or an error out of makedirs
\* a bootstrap that takes a regular file for a directory to replace
IsFileGuard_Never(kind) == FALSE

\* line 128: the guard of _make_empty_data_package_dir
IsFileGuard(kind) == IsFile(kind)

\* __init__ raises: ValueError of line 129, or an error out of makedirs
CtorRaises(recreated) ==
    IsFileGuard(dirKind) \/ MakedirsRaises(AfterRmtree(recreated))

\* lines 122-137: _make_empty_data_package_dir; isfile -> raise, else
\* rmtree when the path exists, then makedirs(exist_ok=True)
make_empty_data_package_dir ==
    IF IsFileGuard(dirKind)
    THEN UNCHANGED dirVars
    ELSE /\ dirKind' = "dir"
         /\ stale' = StaleAfterRmtree(dirKind, stale)
         /\ files' = {}
         /\ removed' = removed

\* what the constructor found at the path
Found(kind, st) ==
    IF kind = "dir" THEN (IF st THEN "nonempty_dir" ELSE "empty_dir") ELSE kind

\* lines 34-59: __init__
Construct ==
    /\ constructed = "no"
    /\ make_empty_data_package_dir
    /\ \E recreated \in BOOLEAN :
          /\ (recreated => ~IsFile(dirKind))
          /\ found' = <<Found(dirKind, stale), recreated>>
          /\ constructed' = IF CtorRaises(recreated) THEN "failed" ELSE "ok"
    /\ warned' = (constructed' = "ok" /\ WarnsAbout(address))
    /\ UNCHANGED <<address, port, bind_address, fsVars, extBusy, cacheVars,
                   cfgArg, pathLocal, message, sentTo, attempts, built, pc,
                   outcome, scopeVars>>

Quiet == \A t \in Callers : pc[t] = "idle"

\* a caller that begins an operation: the locals of its previous call are gone
ResetLocals(t) ==
    /\ cfgArg' = [cfgArg EXCEPT ![t] = NoConfig]
    /\ found' = NoFind
    /\ pathLocal' = [pathLocal EXCEPT ![t] = None]
    /\ message' = [message EXCEPT ![t] = NoMessage]
    /\ sentTo' = [sentTo EXCEPT ![t] = NoDest]
    /\ attempts' = [attempts EXCEPT ![t] = 0]
    /\ built' = [built EXCEPT ![t] = FALSE]

\* no operation begins while __exit__ runs or after the with statement ended
Open == scope \notin {"exiting", "left"}

(* ------------------------- file server lifecycle ---------------------- *)

\* the objects of this instance that hold the listening port
Listening == {s \in ServerIds : srv[s].sock = "listening"}

\* line 69: HTTPServer((bind_address, port), handler) binds and listens; with
\* port 0 the system picks a free port, otherwise the bind raises OSError
\* while any socket already listens on the port
BindSucceeds == port = 0 \/ (~extBusy /\ Listening = {})

\* lines 69-71: the new HTTPServer object and its started worker thread
NewServer == [sock |-> "listening", shutdown_request |-> FALSE,
              is_shut_down |-> FALSE, thread |-> "started"]

\* lines 62-71: start().  Nothing is checked before the server is built, so
\* the handle is overwritten whenever the bind succeeds.
start ==
    IF BindSucceeds
    THEN /\ nextId' = nextId + 1
         /\ srv' = [srv EXCEPT ![nextId + 1] = NewServer]
         /\ file_server' = nextId + 1
         /\ file_server_thread' = nextId + 1
    ELSE UNCHANGED fsVars

Start(t) ==
    /\ constructed = "ok" /\ t = "main" /\ Quiet
    /\ Open
    /\ nextId < MaxStarts
    /\ start
    /\ ResetLocals(t)
    /\ outcome' = [outcome EXCEPT ![t] = IF BindSucceeds THEN "start_ok"
                                          ELSE "start_OSError"]
    /\ scopeStarts' = IF BindSucceeds /\ scope = "body"
                      THEN scopeStarts + 1 ELSE scopeStarts
    /\ UNCHANGED <<ctorVars, dirVars, extBusy, cacheVars, pc,
                   scope, bodyRaised, scopeStops, scopeResult>>

\* a shutdown() that does not tell the loop to end
RequestShutdown_Forget(server) == server

\* line 82: BaseServer.shutdown() sets the request flag of the server
RequestShutdown(server) == [server EXCEPT !.shutdown_request = TRUE]

\* a stop() that lost its guard
NotStarted_Never(fs, th) == FALSE

\* line 79: the guard of stop()
NotStarted(fs, th) == fs = None \/ th = None

\* lines 74-82: stop() up to the shutdown request: ValueError when there is
\* no handle, else BaseServer.shutdown() sets the request flag and waits
stop_begin(t) ==
    IF NotStarted(file_server, file_server_thread)
    THEN /\ outcome' = [outcome EXCEPT ![t] = "stop_ValueError"]
         /\ pc' = [pc EXCEPT ![t] = "idle"]
         /\ UNCHANGED fsVars
    ELSE IF file_server = None
    THEN \* line 82 on a None handle: None has no attribute shutdown
         /\ outcome' = [outcome EXCEPT ![t] = "stop_AttributeError"]
         /\ pc' = [pc EXCEPT ![t] = "idle"]
         /\ UNCHANGED fsVars
    ELSE /\ srv' = [srv EXCEPT ![file_server] = RequestShutdown(@)]
         /\ pc' = [pc EXCEPT ![t] = "stop_wait"]
         /\ outcome' = [outcome EXCEPT ![t] = "running"]
         /\ UNCHANGED <<file_server, file_server_thread, nextId>>

Stop(t) ==
    /\ constructed = "ok" /\ t = "main" /\ Quiet
    /\ Open
    /\ stop_begin(t)
    /\ ResetLocals(t)
    /\ UNCHANGED <<ctorVars, dirVars, extBusy, cacheVars, scopeVars>>

\* a shutdown() that returns without waiting for the loop
ShutdownReturns_NoWait(server) == TRUE

\* line 82: BaseServer.shutdown() blocks on the is_shut_down event, which
\* serve_forever sets when it has left its loop
ShutdownReturns(server) == server.is_shut_down

\* line 82: shutdown() returns once serve_forever has set is_shut_down
StopShutdownReturns(t) ==
    /\ pc[t] = "stop_wait"
    /\ ShutdownReturns(srv[file_server])
    /\ pc' = [pc EXCEPT ![t] = "stop_close"]
    /\ UNCHANGED <<ctorVars, dirVars, fsVars, extBusy, cacheVars, pushVars,
                   outcome, scopeVars>>

\* a server_close() that leaves the socket listening
server_close_Noop(sock) == sock

\* line 83: what server_close() does to the listening socket
server_close(sock) == "closed"

\* line 83: server_close() releases the listening socket
StopServerClose(t) ==
    /\ pc[t] = "stop_close"
    /\ srv' = [srv EXCEPT ![file_server].sock = server_close(@)]
    /\ pc' = [pc EXCEPT ![t] = "stop_join"]
    /\ UNCHANGED <<ctorVars, dirVars, file_server, file_server_thread, nextId,
                   extBusy, cacheVars, pushVars, outcome, scopeVars>>

\* an __exit__ that returns a true value, which suppresses the exception
ExitResult_Swallow(raised) == "ok"

\* what the caller of the with statement observes when __exit__ has run:
\* __exit__ returns None, so an exception of the body is re-raised
ExitResult(raised) == IF raised THEN "body_exception" ELSE "ok"

\* a stop() that keeps the handle of the server it has shut down
HandleAfterStop_Keep(h) == h

\* lines 86-87: the handle fields after stop()
HandleAfterStop(h) == None

\* lines 84-87: join the worker, then clear the handle
StopJoin(t) ==
    /\ pc[t] = "stop_join"
    /\ srv[file_server_thread].thread = "exited"
    /\ file_server' = HandleAfterStop(file_server)
    /\ file_server_thread' = HandleAfterStop(file_server_thread)
    /\ pc' = [pc EXCEPT ![t] = "idle"]
    /\ outcome' = [outcome EXCEPT ![t] = "stop_ok"]
    /\ scopeStops' = IF scope \in {"body", "exiting"}
                     THEN scopeStops + 1 ELSE scopeStops
    /\ scope' = IF scope = "exiting" THEN "left" ELSE scope
    /\ scopeResult' = IF scope = "exiting" THEN ExitResult(bodyRaised)
                      ELSE scopeResult
    /\ UNCHANGED <<ctorVars, dirVars, srv, nextId, extBusy, cacheVars,
                   pushVars, bodyRaised, scopeStarts>>

(* --------------------- the serving worker thread ---------------------- *)

\* line 70: Thread(target=serve_forever): on entry the worker clears the
\* is_shut_down event
WorkerEnter(s) ==
    /\ srv[s].thread = "started"
    /\ srv' = [srv EXCEPT ![s].thread = "serving", ![s].is_shut_down = FALSE]
    /\ UNCHANGED <<ctorVars, dirVars, file_server, file_server_thread, nextId,
                   extBusy, cacheVars, pushVars, pc, outcome, scopeVars>>

\* the loop sees the shutdown request, leaves the loop, resets the request
\* and sets is_shut_down
WorkerLeaveLoop(s) ==
    /\ srv[s].thread = "serving"
    /\ srv[s].shutdown_request
    /\ srv' = [srv EXCEPT ![s].thread = "returning",
                          ![s].shutdown_request = FALSE,
                          ![s].is_shut_down = TRUE]
    /\ UNCHANGED <<ctorVars, dirVars, file_server, file_server_thread, nextId,
                   extBusy, cacheVars, pushVars, pc, outcome, scopeVars>>

\* serve_forever has returned and the thread ends
WorkerExit(s) ==
    /\ srv[s].thread = "returning"
    /\ srv' = [srv EXCEPT ![s].thread = "exited"]
    /\ UNCHANGED <<ctorVars, dirVars, file_server, file_server_thread, nextId,
                   extBusy, cacheVars, pushVars, pc, outcome, scopeVars>>

\* another process takes or releases the port while this instance does not
\* listen on it
ExtToggle ==
    /\ constructed = "ok"
    /\ port # 0
    /\ Listening = {}
    /\ extBusy' = ~extBusy
    /\ UNCHANGED <<ctorVars, dirVars, fsVars, cacheVars, pushVars, pc,
                   outcome, scopeVars>>

\* another process deletes a data package file from the package directory
ExtDelete(p) ==
    /\ p \in files
    /\ files' = files \ {p}
    /\ removed' = removed \cup {p}
    /\ UNCHANGED <<ctorVars, dirKind, stale, fsVars, extBusy, cacheVars,
                   pushVars, pc, outcome, scopeVars>>

(* --------------------------- context manager -------------------------- *)

\* lines 140-142: __enter__ calls start(); when start() raises, the body is
\* not run and __exit__ is not called
Enter(t) ==
    /\ constructed = "ok" /\ t = "main" /\ Quiet
    /\ scope = "none"
    /\ nextId < MaxStarts
    /\ start
    /\ ResetLocals(t)
    /\ outcome' = [outcome EXCEPT ![t] = IF BindSucceeds THEN "start_ok"
                                          ELSE "start_OSError"]
    /\ scope' = IF BindSucceeds THEN "body" ELSE "none"
    /\ scopeStarts' = IF BindSucceeds THEN 1 ELSE 0
    /\ scopeStops' = 0
    /\ UNCHANGED <<ctorVars, dirVars, extBusy, cacheVars, pc,
                   bodyRaised, scopeResult>>

\* lines 145-146: __exit__ calls stop(), whether the body raised or not; a
\* ValueError out of stop() is what the caller of the with statement sees
Exit(t, raised) ==
    /\ t = "main" /\ Quiet
    /\ scope = "body"
    /\ bodyRaised' = raised
    /\ stop_begin(t)
    /\ ResetLocals(t)
    /\ scope' = IF pc'[t] = "idle" THEN "left" ELSE "exiting"
    /\ scopeResult' = IF pc'[t] = "idle" THEN outcome'[t] ELSE scopeResult
    /\ UNCHANGED <<ctorVars, dirVars, extBusy, cacheVars,
                   scopeStarts, scopeStops>>

(* ------------------------------ push_cot ------------------------------ *)

RECURSIVE SumOver(_, _)
SumOver(f, S) ==
    IF S = {} THEN 0
    ELSE LET x == CHOOSE y \in S : TRUE IN f[x] + SumOver(f, S \ {x})

\* invocations of create_data_package made or about to be made
BuildsUsed ==
    SumOver(builderCalls, Configs) + Cardinality({t \in Callers : pc[t] = "build"})

\* a push_cot that builds on every call
NeedsBuild_Always(cache, c) == TRUE

\* a push_cot that builds again when the cached file is gone
NeedsBuild_IfMissing(cache, c) == cache[c] = None \/ cache[c] \notin files

\* line 104: the cache test of push_cot
NeedsBuild(cache, c) == cache[c] = None

\* create_data_package(cot_config, data_package_dir): a new file under the
\* package directory, a path no earlier call has returned
create_data_package(n) == n + 1

\* compose_message(cot_config, address, port, data_package_path)
compose_message(c, a, p, path) ==
    [cfg |-> c, address |-> a, port |-> p, path |-> path]

\* a push_cot that announces the bind address instead of the public one
ComposeArgs_Bind(c) == compose_message(c, bind_address, port, cot_dp_paths[c])

\* lines 110-115: the arguments push_cot hands to compose_message
ComposeArgs(c) == compose_message(c, address, port, cot_dp_paths[c])

\* lines 90-104: a call of push_cot up to the cache test
PushCheck(t, c) ==
    /\ constructed = "ok" /\ pc[t] = "idle"
    /\ Open
    /\ NeedsBuild(cot_dp_paths, c) => BuildsUsed < MaxBuilds
    /\ cfgArg' = [cfgArg EXCEPT ![t] = c]
    /\ found' = NoFind
    /\ pathLocal' = [pathLocal EXCEPT ![t] = None]
    /\ message' = [message EXCEPT ![t] = NoMessage]
    /\ sentTo' = [sentTo EXCEPT ![t] = NoDest]
    /\ attempts' = [attempts EXCEPT ![t] = 0]
    /\ built' = [built EXCEPT ![t] = FALSE]
    /\ outcome' = [outcome EXCEPT ![t] = "running"]
    /\ pc' = [pc EXCEPT ![t] = IF NeedsBuild(cot_dp_paths, c) THEN "build"
                                ELSE "compose"]
    /\ UNCHANGED <<ctorVars, dirVars, fsVars, extBusy, cacheVars, scopeVars>>

\* a push_cot that swallows the failure of the builder and goes on
AfterBuild_Swallow(ok) == "store"

\* lines 105-106: where push_cot continues after create_data_package: at the
\* store when it returned, nowhere when it raised
AfterBuild(ok) == IF ok THEN "store" ELSE "idle"

\* line 105: create_data_package returns a path, or raises
PushBuild(t, ok) ==
    /\ pc[t] = "build"
    /\ builderCalls' = [builderCalls EXCEPT ![cfgArg[t]] = @ + 1]
    /\ built' = [built EXCEPT ![t] = TRUE]
    /\ IF ok
       THEN /\ nextPath' = create_data_package(nextPath)
            /\ pathLocal' = [pathLocal EXCEPT ![t] = create_data_package(nextPath)]
            /\ files' = files \cup {create_data_package(nextPath)}
            /\ pc' = [pc EXCEPT ![t] = AfterBuild(ok)]
            /\ UNCHANGED <<buildFailed, outcome>>
       ELSE /\ buildFailed' = TRUE
            /\ outcome' = [outcome EXCEPT ![t] = "push_build_error"]
            /\ pc' = [pc EXCEPT ![t] = AfterBuild(ok)]
            /\ UNCHANGED <<nextPath, pathLocal, files>>
    /\ UNCHANGED <<ctorVars, dirKind, stale, removed, fsVars, extBusy, cot_dp_paths,
                   lastStored, sendFailed, cfgArg, found, message, sentTo,
                   attempts,
                   scopeVars>>

\* a store that keeps an entry another thread has written meanwhile
StorePath_KeepFirst(cache, c, path) ==
    IF cache[c] = None THEN [cache EXCEPT ![c] = path] ELSE cache

\* line 106: self._cot_dp_paths[cot_config] = data_package_path
StorePath(cache, c, path) == [cache EXCEPT ![c] = path]

PushStore(t) ==
    /\ pc[t] = "store"
    /\ cot_dp_paths' = StorePath(cot_dp_paths, cfgArg[t], pathLocal[t])
    /\ lastStored' = [lastStored EXCEPT ![cfgArg[t]] = pathLocal[t]]
    /\ pc' = [pc EXCEPT ![t] = "compose"]
    /\ UNCHANGED <<ctorVars, dirVars, fsVars, extBusy, builderCalls,
                   buildFailed, nextPath, sendFailed, pushVars, outcome,
                   scopeVars>>

\* lines 109-115: read the path back from the cache and compose the message
PushCompose(t) ==
    /\ pc[t] = "compose"
    /\ pathLocal' = [pathLocal EXCEPT ![t] = cot_dp_paths[cfgArg[t]]]
    /\ message' = [message EXCEPT ![t] = ComposeArgs(cfgArg[t])]
    /\ pc' = [pc EXCEPT ![t] = "send"]
    /\ UNCHANGED <<ctorVars, dirVars, fsVars, extBusy, cacheVars, cfgArg, found,
                   sentTo, attempts, built, outcome, scopeVars>>

\* a push_cot that tries a second time when the send fails
SendAttempts_Retry(ok) == IF ok THEN 1 ELSE 2

\* lines 118-119: connections opened and sends tried by one call
SendAttempts(ok) == 1

\* a push_cot that drops the cache entry when the send fails
CacheAfterSend_Rollback(cache, c, ok) ==
    IF ok THEN cache ELSE [cache EXCEPT ![c] = None]

\* lines 118-119: the cache is not touched by the send, whatever its result
CacheAfterSend(cache, c, ok) == cache

\* lines 118-119: one SocketConnection to the client, one send; connecting
\* or sending may raise (refused, reset, timeout)
PushSend(t, ok) ==
    /\ pc[t] = "send"
    /\ attempts' = [attempts EXCEPT ![t] = @ + SendAttempts(ok)]
    /\ cot_dp_paths' = CacheAfterSend(cot_dp_paths, cfgArg[t], ok)
    /\ sentTo' = [sentTo EXCEPT ![t] = <<ClientAddress, ClientPort>>]
    /\ outcome' = [outcome EXCEPT ![t] = IF ok THEN "push_ok"
                                          ELSE "push_transport_error"]
    /\ sendFailed' = IF ~ok /\ built[t]
                     THEN [sendFailed EXCEPT ![cfgArg[t]] =
                              [path |-> pathLocal[t],
                               calls |-> builderCalls[cfgArg[t]]]]
                     ELSE sendFailed
    /\ pc' = [pc EXCEPT ![t] = "idle"]
    /\ UNCHANGED <<ctorVars, dirVars, fsVars, extBusy, builderCalls,
                   buildFailed, nextPath, lastStored, cfgArg, found, pathLocal,
                   message, built, scopeVars>>

(* --------------------------- specifications --------------------------- *)

\* steps that continue an operation in flight, and the steps of the worker
\* threads and of the environment
Continue ==
    \/ \E t \in Callers : StopShutdownReturns(t)
    \/ \E t \in Callers : StopServerClose(t)
    \/ \E t \in Callers : StopJoin(t)
    \/ \E t \in Callers, ok \in BOOLEAN : PushBuild(t, ok)
    \/ \E t \in Callers : PushStore(t)
    \/ \E t \in Callers : PushCompose(t)
    \/ \E t \in Callers, ok \in BOOLEAN : PushSend(t, ok)
    \/ \E s \in ServerIds : WorkerEnter(s)
    \/ \E s \in ServerIds : WorkerLeaveLoop(s)
    \/ \E s \in ServerIds : WorkerExit(s)
    \/ ExtToggle
    \/ \E p \in 1..MaxBuilds : ExtDelete(p)

\* a push_cot that refuses to run while no file server is started
push_cot_NeedsServer(t, c) == Quiet /\ file_server # None /\ PushCheck(t, c)

\* lines 90-104: push_cot called while no other call is in flight
push_cot(t, c) == Quiet /\ PushCheck(t, c)

\* one caller at a time: "main" begins an operation only when none is in
\* flight
Next ==
    \/ Construct
    \/ \E t \in Callers : Start(t)
    \/ \E t \in Callers : Stop(t)
    \/ \E t \in Callers : Enter(t)
    \/ \E t \in Callers, raised \in BOOLEAN : Exit(t, raised)
    \/ \E c \in Configs : push_cot("main", c)
    \/ Continue

Spec == Init /\ [][Next]_vars

\* concurrent pushes: a caller may begin a push while another is in flight
NextConc ==
    \/ Construct
    \/ \E t \in Callers, c \in Configs : PushCheck(t, c)
    \/ \E t \in Callers, ok \in BOOLEAN : PushBuild(t, ok)
    \/ \E t \in Callers : PushStore(t)
    \/ \E t \in Callers : PushCompose(t)
    \/ \E t \in Callers, ok \in BOOLEAN : PushSend(t, ok)

SpecConc == Init /\ [][NextConc]_vars

\* the file server alone: construction, start and stop (direct and through
\* the with statement) and the worker threads, without pushes
NextLive ==
    \/ Construct
    \/ \E t \in Callers : Start(t)
    \/ \E t \in Callers : Stop(t)
    \/ \E t \in Callers : Enter(t)
    \/ \E t \in Callers, raised \in BOOLEAN : Exit(t, raised)
    \/ \E t \in Callers : StopShutdownReturns(t)
    \/ \E t \in Callers : StopServerClose(t)
    \/ \E t \in Callers : StopJoin(t)
    \/ \E s \in ServerIds : WorkerEnter(s)
    \/ \E s \in ServerIds : WorkerLeaveLoop(s)
    \/ \E s \in ServerIds : WorkerExit(s)
    \/ ExtToggle

\* fair scheduling: a thread that can take its next step eventually takes
\* it, both the thread inside stop() and every worker thread
Fairness ==
    /\ WF_vars(StopShutdownReturns("main"))
    /\ WF_vars(StopServerClose("main"))
    /\ WF_vars(StopJoin("main"))
    /\ \A s \in ServerIds :
          /\ WF_vars(WorkerEnter(s))
          /\ WF_vars(WorkerLeaveLoop(s))
          /\ WF_vars(WorkerExit(s))

SpecLive == Init /\ [][NextLive]_vars /\ Fairness

(* ------------------------------- claims ------------------------------- *)

Returned(t) == outcome[t] \in {"push_ok", "push_transport_error"}

\* C1: with one caller at a time and no failing build, create_data_package
\* is invoked exactly once per configuration pushed: never twice, once for
\* every configuration that has been built or cached, every push that got
\* past the cache step has a configuration with exactly one invocation and
\* names the cached path, and distinct configurations hold distinct paths.
C1_BuildOncePerConfig ==
    ~buildFailed =>
        /\ \A c \in Configs : builderCalls[c] <= 1
        /\ \A c \in Configs :
              builderCalls[c] = 1 <=>
                  \/ cot_dp_paths[c] # None
                  \/ \E t \in Callers : pc[t] = "store" /\ cfgArg[t] = c
        /\ \A t \in Callers :
              Returned(t) =>
                  /\ builderCalls[cfgArg[t]] = 1
                  /\ message[t].path = cot_dp_paths[cfgArg[t]]
        /\ \A c, d \in Configs :
              (c # d /\ cot_dp_paths[c] # None /\ cot_dp_paths[d] # None)
                  => cot_dp_paths[c] # cot_dp_paths[d]

\* both configurations have been built once and a later push of one of them
\* has been sent from the cache, without a build
C1_Witness ==
    /\ ~buildFailed
    /\ \A c \in Configs : builderCalls[c] = 1 /\ cot_dp_paths[c] # None
    /\ outcome["main"] = "push_ok"
    /\ ~built["main"]

\* C2: a stop() (called directly or by __exit__) that finds the handle empty
\* returns a ValueError at once and changes nothing: the handle stays empty,
\* the cache, the server objects (no shutdown request, no socket closed, no
\* thread joined) and the package directory are as before.
C2_StopNotRunning ==
    [][\A t \in Callers :
          ( /\ file_server = None
            /\ file_server_thread = None
            /\ (Stop(t) \/ \E raised \in BOOLEAN : Exit(t, raised)) )
          => /\ outcome'[t] = "stop_ValueError"
             /\ pc'[t] = "idle"
             /\ file_server' = None
             /\ file_server_thread' = None
             /\ UNCHANGED <<srv, nextId, cacheVars, dirVars>>]_vars

\* stop() has failed on a server that had been started and stopped before
C2_Witness ==
    /\ outcome["main"] = "stop_ValueError"
    /\ file_server = None
    /\ nextId >= 1
    /\ srv[1].thread = "exited"

\* C3: when stop() has returned normally the handle is empty and nothing of
\* the instance listens or serves through it; a start() (or __enter__) that
\* follows, the port not being held by another process, succeeds with a
\* server object and a worker thread that did not exist before, listening
\* and started.
C3_Restart ==
    [][\A t \in Callers :
          /\ outcome'[t] = "stop_ok" =>
                (file_server' = None /\ file_server_thread' = None)
          /\ ( /\ outcome[t] = "stop_ok"
               /\ ~extBusy
               /\ (Start(t) \/ Enter(t)) )
             => /\ outcome'[t] = "start_ok"
                /\ file_server' \in ServerIds
                /\ file_server_thread' = file_server'
                /\ srv[file_server'].sock = "none"
                /\ srv[file_server'].thread = "none"
                /\ srv'[file_server'].sock = "listening"
                /\ srv'[file_server'].thread = "started"]_vars

\* the second server serves after the first one was stopped and closed
C3_Witness ==
    /\ nextId = 2
    /\ file_server = 2
    /\ srv[2].thread = "serving"
    /\ srv[1].thread = "exited"
    /\ srv[1].sock = "closed"
    /\ port # 0


\* the worker threads of this instance that have been started and have not
\* ended
Running == {s \in ServerIds : srv[s].thread \in {"started", "serving", "returning"}}

\* the handle between two calls: both fields set or both empty; when set it
\* names the server of the latest successful start(), which listens and
\* whose worker runs; empty until a start() has succeeded and after every
\* stop(), successful or not
HandleCoherent ==
    Quiet =>
        /\ file_server = None <=> file_server_thread = None
        /\ file_server # None =>
              /\ file_server = file_server_thread
              /\ file_server = nextId
              /\ srv[file_server].sock = "listening"
              /\ srv[file_server].thread \in {"started", "serving"}
        /\ nextId = 0 => file_server = None
        /\ outcome["main"] \in {"stop_ok", "stop_ValueError"} => file_server = None

\* C4 as stated: between two calls the handle is non-empty only from a
\* successful start() to the next stop(), its worker then running, and it is
\* empty after construction, after every failed start() and after every
\* stop().
C4_HandleEmptyAfterFailedStart ==
    /\ HandleCoherent
    /\ Quiet /\ outcome["main"] = "start_OSError" => file_server = None

\* C4 amended: as above, but a start() that failed leaves the handle as it
\* was before the call: empty when it was empty, and still naming the running
\* server when start() was called while one was running.
C4_HandleOnlyWhileRunning ==
    /\ []HandleCoherent
    /\ [][\A t \in Callers :
             ((Start(t) \/ Enter(t)) /\ outcome'[t] = "start_OSError")
                 => UNCHANGED <<file_server, file_server_thread, srv>>]_vars

\* a start() has failed while a server was running, and the handle still
\* names that server
C4_Witness ==
    /\ Quiet
    /\ outcome["main"] = "start_OSError"
    /\ file_server = 1
    /\ srv[1].thread = "serving"

\* C5: when the with statement has been left, exactly one start() and one
\* stop() have succeeded since __enter__ was called, and no worker thread of
\* the instance is still running.
C5_ScopeStartsAndStopsOnce ==
    scope = "left" =>
        /\ scopeStarts = 1
        /\ scopeStops = 1
        /\ Running = {}

\* C6: when create_data_package raises, push_cot ends there with the build
\* error: the cache is as before and has no entry for the configuration, no
\* message is composed and no send is tried; the next push of that
\* configuration goes to the builder again.
C6_BuildFailure ==
    [][\A t \in Callers :
          /\ PushBuild(t, FALSE) =>
                /\ outcome'[t] = "push_build_error"
                /\ pc'[t] = "idle"
                /\ cot_dp_paths' = cot_dp_paths
                /\ cot_dp_paths'[cfgArg[t]] = None
                /\ message'[t] = NoMessage
                /\ attempts'[t] = 0
                /\ sentTo'[t] = NoDest
          /\ \A c \in Configs :
                (outcome[t] = "push_build_error" /\ cfgArg[t] = c /\ push_cot(t, c))
                    => pc'[t] = "build"]_vars

\* a build has failed and a later push of the same configuration has built
\* the package and sent its message
C6_Witness ==
    /\ buildFailed
    /\ outcome["main"] = "push_ok"
    /\ built["main"]
    /\ cfgArg["main"] \in Configs
    /\ builderCalls[cfgArg["main"]] = 2
    /\ cot_dp_paths[cfgArg["main"]] = message["main"].path

\* C7: a push whose send fails returns the transport error after that one
\* attempt, and when that push had built the package the cache keeps the
\* entry: from then on the configuration maps to the same path, the builder
\* is not invoked for it again and every message for it names that path.
C7_CacheKeptOnSendFailure ==
    /\ \A t \in Callers :
          outcome[t] = "push_transport_error" =>
              /\ pc[t] = "idle"
              /\ attempts[t] = 1
              /\ cot_dp_paths[cfgArg[t]] = message[t].path
    /\ \A c \in Configs :
          sendFailed[c] # NoFailure =>
              /\ cot_dp_paths[c] = sendFailed[c].path
              /\ builderCalls[c] = sendFailed[c].calls
              /\ \A t \in Callers :
                    (cfgArg[t] = c /\ message[t] # NoMessage)
                        => message[t].path = sendFailed[c].path

\* the send of the building push failed and a later push of the same
\* configuration was sent from the cache
C7_Witness ==
    /\ cfgArg["main"] \in Configs
    /\ sendFailed[cfgArg["main"]] # NoFailure
    /\ outcome["main"] = "push_ok"
    /\ ~built["main"]
    /\ message["main"].path = sendFailed[cfgArg["main"]].path

\* C8 as stated: every call of push_cot, however it ends, has made exactly
\* one send attempt.
C8_OneSendOnEveryOutcome ==
    \A t \in Callers :
        outcome[t] \in {"push_ok", "push_transport_error", "push_build_error"}
            => attempts[t] = 1

\* C8 amended: a call of push_cot never makes more than one send attempt; it
\* has made exactly one when it returns or fails in the transport, and none
\* when create_data_package failed.
C8_OneSendUnlessBuildFails ==
    \A t \in Callers :
        /\ attempts[t] <= 1
        /\ Returned(t) => (attempts[t] = 1 /\ sentTo[t] = <<ClientAddress, ClientPort>>)
        /\ outcome[t] = "push_build_error" => (attempts[t] = 0 /\ sentTo[t] = NoDest)

\* a push has failed in the transport after its one attempt
C8_Witness ==
    /\ outcome["main"] = "push_transport_error"
    /\ attempts["main"] = 1

\* C9: with concurrent callers the cache holds, for every configuration, the
\* path stored last (a store overwrites what another thread has stored), and
\* a message names the path the cache held when it was composed, one that
\* create_data_package returned.
C9_LastWriteWins ==
    /\ \A c \in Configs : cot_dp_paths[c] = lastStored[c]
    /\ \A t \in Callers :
          message[t] # NoMessage => message[t].path \in 1..nextPath

\* both threads have built the same new configuration, the cache holds the
\* path of the second store and the two messages name different paths
C9_Witness ==
    /\ cfgArg["main"] \in Configs
    /\ cfgArg["main"] = cfgArg["aux"]
    /\ outcome["main"] = "push_ok" /\ outcome["aux"] = "push_ok"
    /\ built["main"] /\ built["aux"]
    /\ ~buildFailed
    /\ builderCalls[cfgArg["main"]] = 2
    /\ message["main"].path # message["aux"].path
    /\ cot_dp_paths[cfgArg["main"]] = message["aux"].path
    /\ message["main"].path \in files

\* the loopback values of a client-facing address
Loopback == {"localhost", "127.0.0.1"}

\* C10: __init__ succeeds for every address, and has warned exactly when the
\* address is a loopback value.
C10_LoopbackWarning ==
    constructed = "ok" => (warned <=> address \in Loopback)


\* C11: __init__ on a path that is a regular file raises and changes nothing:
\* the file stays, no directory is made or removed, no warning is issued, and
\* there is no instance afterwards, so no server object, no handle and no
\* cache entry ever exists.
C11_FileCollision ==
    /\ [](constructed = "failed" =>
            /\ dirKind = "file" /\ ~stale /\ files = {}
            /\ ~warned
            /\ file_server = None /\ file_server_thread = None /\ nextId = 0
            /\ \A c \in Configs : cot_dp_paths[c] = None /\ builderCalls[c] = 0)
    /\ [][(Construct /\ IsFile(dirKind))
             => /\ constructed' = "failed"
                /\ UNCHANGED <<dirVars, fsVars, cacheVars>>]_vars

\* the constructor has failed on a regular file, which is still there
C11_Witness ==
    /\ constructed = "failed"
    /\ found[1] = "file"
    /\ dirKind = "file"

\* C12: __init__ succeeds on every path that is not a regular file, also when
\* the directory exists again when makedirs runs, and leaves the package
\* directory existing and empty, whatever it held before; it stays so until
\* the first package is built.
C12_EmptyAfterConstruction ==
    /\ []((constructed = "ok" /\ nextPath = 0) =>
            (dirKind = "dir" /\ ~stale /\ files = {}))
    /\ [][(Construct /\ ~IsFile(dirKind))
             => /\ constructed' = "ok"
                /\ dirKind' = "dir" /\ ~stale' /\ files' = {}]_vars

\* constructed on a non-empty directory that was there again at makedirs:
\* the directory is empty
C12_Witness ==
    /\ constructed = "ok"
    /\ found = <<"nonempty_dir", TRUE>>
    /\ dirKind = "dir" /\ ~stale /\ files = {}


\* C13: with one caller at a time an entry of the cache, once made, keeps
\* its path in every later step (pushes, start, stop, restarts, deletion of
\* the file by another process), and every path the builder has returned is
\* the entry of exactly one configuration or is about to be stored as one.
C13_CacheOnlyGrows ==
    /\ [](nextPath = Cardinality({c \in Configs : cot_dp_paths[c] # None})
                      + Cardinality({t \in Callers : pc[t] = "store"}))
    /\ [][\A c \in Configs :
             cot_dp_paths[c] # None => cot_dp_paths'[c] = cot_dp_paths[c]]_vars

\* after a restart of the file server and the deletion of the package file
\* a push has been sent from the cache, naming the path built first
C13_Witness ==
    /\ nextId = 2
    /\ outcome["main"] = "push_ok"
    /\ ~built["main"]
    /\ message["main"].path = cot_dp_paths[cfgArg["main"]]
    /\ message["main"].path \in removed
    /\ builderCalls[cfgArg["main"]] = 1

\* the message push_cot composes: the pushed configuration, the address and
\* port of the constructor (not the destination, not the bind address) and
\* the cached path, which create_data_package has returned
MessageComposed(t) ==
    message[t] # NoMessage =>
        /\ message[t].cfg = cfgArg[t]
        /\ message[t].address = address
        /\ message[t].address \notin {ClientAddress, bind_address}
        /\ message[t].port = port
        /\ message[t].port # ClientPort
        /\ message[t].path = cot_dp_paths[cfgArg[t]]
        /\ message[t].path \in 1..nextPath

\* C14 as stated: every message is composed as above, and after a successful
\* push the file the message names exists in the package directory.
C14_MessageAndFileExists ==
    \A t \in Callers :
        /\ MessageComposed(t)
        /\ outcome[t] = "push_ok" => message[t].path \in files

\* C14 amended: every message is composed as above, and after a successful
\* push the file the message names is one the builder created in the package
\* directory; it exists there unless another process has deleted it.
C14_MessageAndFileBuilt ==
    \A t \in Callers :
        /\ MessageComposed(t)
        /\ outcome[t] = "push_ok" =>
              /\ message[t].path \in files \cup removed
              /\ message[t].path \notin removed => message[t].path \in files

\* a push of a new configuration has been sent and its file exists
C14_Witness ==
    /\ outcome["main"] = "push_ok"
    /\ built["main"]
    /\ message["main"].address = address
    /\ message["main"].port = port
    /\ message["main"].path \in files

\* C15: when the body of the with statement raised and __exit__ has run,
\* the caller of the with statement observes a failure (the exception of the
\* body, or the ValueError of a stop() that found no server), never a
\* normal end.
C15_BodyFailureNotSwallowed ==
    (scope = "left" /\ bodyRaised) =>
        scopeResult \in {"body_exception", "stop_ValueError"}

\* the body raised, __exit__ has stopped the server and joined the worker,
\* and the exception of the body reaches the caller
C15_Witness ==
    /\ scope = "left"
    /\ bodyRaised
    /\ outcome["main"] = "stop_ok"
    /\ scopeStops >= 1
    /\ scopeResult = "body_exception"

\* the worker of server s is inside serve_forever and has not left its loop
InLoop(s) == srv[s].thread \in {"started", "serving"}

\* C16: stop() asks the loop to end and waits until it has ended, then
\* closes the listening socket, then joins the worker, then clears the
\* handle: no socket is closed while its loop runs, the socket is still open
\* when shutdown() returns, the handle is still set while the worker is
\* joined, and when stop() has returned the worker has ended, the socket is
\* closed and the handle is empty.
C16_StopOrder ==
    /\ \A s \in ServerIds : srv[s].sock = "closed" => ~InLoop(s)
    /\ pc["main"] = "stop_close" =>
          /\ file_server # None
          /\ ~InLoop(file_server)
          /\ srv[file_server].sock = "listening"
    /\ pc["main"] = "stop_join" =>
          /\ file_server # None /\ file_server_thread # None
          /\ srv[file_server].sock = "closed"
    /\ (pc["main"] = "idle" /\ outcome["main"] = "stop_ok") =>
          /\ file_server = None /\ file_server_thread = None
          /\ srv[nextId].thread = "exited"
          /\ srv[nextId].sock = "closed"

\* stop() has returned: the worker of the stopped server has ended, its
\* socket is closed and the handle is empty
C16_Witness ==
    /\ pc["main"] = "idle"
    /\ outcome["main"] = "stop_ok"
    /\ nextId = 1
    /\ srv[1].thread = "exited"
    /\ srv[1].sock = "closed"
    /\ file_server = None

\* stop() has passed its guard and has not returned yet
InStop == pc["main"] \in {"stop_wait", "stop_close", "stop_join"}

\* C17: under fair scheduling a stop() that has passed its guard eventually
\* returns normally, also when it was called before the worker has entered
\* its serving loop.
C17_StopTerminates ==
    InStop ~> (pc["main"] = "idle" /\ outcome["main"] = "stop_ok")

\* stop() waits in shutdown() while the worker of the server it stops has
\* been started but has not entered serve_forever yet
C17_Witness ==
    /\ pc["main"] = "stop_wait"
    /\ file_server # None
    /\ srv[file_server].thread = "started"
    /\ srv[file_server].shutdown_request

\* C18: at most one worker of the instance is running at any time, and a
\* running worker is the one the handle names, so that a later stop() can
\* shut it down: start() never replaces the handle of a running server.
\* Violated: start() has no guard, so with port 0 a second start() binds a
\* second socket, starts a second worker and overwrites the handle.
C18_AtMostOneWorker ==
    /\ Cardinality(Running) <= 1
    /\ \A s \in Running : file_server = s /\ file_server_thread = s

\* a step of push_cot: the caller enters or leaves one of its stages
PushStep ==
    \E t \in Callers :
        /\ pc'[t] # pc[t]
        /\ {pc[t], pc'[t]} \cap {"build", "store", "compose", "send"} # {}

\* a step of start() or stop(), direct or through the with statement, or of
\* a worker thread
LifecycleStep ==
    \/ fsVars' # fsVars
    \/ scope' # scope
    \/ {pc["main"], pc'["main"]} \cap {"stop_wait", "stop_close", "stop_join"} # {}
    \/ /\ outcome'["main"] # outcome["main"]
       /\ outcome'["main"] \in {"start_ok", "start_OSError", "stop_ok",
                                "stop_ValueError"}

\* push_cot can be called: the instance exists, no call is in flight, the
\* with statement has not ended, and the configuration is cached or the
\* builder may still be invoked
CanPush(c) ==
    /\ constructed = "ok" /\ Quiet /\ Open
    /\ (cot_dp_paths[c] # None \/ BuildsUsed < MaxBuilds)

\* C19: push_cot runs whatever the state of the file server (never started,
\* running, stopped), no step of push_cot changes the handle or the servers,
\* and no step of start() or stop() changes the package cache.
C19_PushAndLifecycleIndependent ==
    /\ [](\A c \in Configs : CanPush(c) => ENABLED push_cot("main", c))
    /\ [][PushStep => UNCHANGED fsVars]_vars
    /\ [][LifecycleStep => cot_dp_paths' = cot_dp_paths]_vars

\* a push answered from the cache has been sent after the file server was
\* started and stopped: the handle is empty and the entry is still there
C19_Witness ==
    /\ outcome["main"] = "push_ok"
    /\ ~built["main"]
    /\ nextId >= 1
    /\ file_server = None
    /\ srv[nextId].thread = "exited"
    /\ cot_dp_paths[cfgArg["main"]] # None

==========================================================================
